---- MODULE Spec2Model ----
(***************************************************************************)
(* The session manager of the WebSocket coordinator                        *)
(* (ClaudeSessionManager, session-manager.js): the registry `sessions`     *)
(* (agentType -> session), the worker processes it spawns with piped       *)
(* stdio, the writes of injectContext into a worker's stdin stream, the    *)
(* 'exit' handler of each worker and stopSession / stopAllSessions.        *)
(*                                                                         *)
(* The manager runs on one event loop: every method body without an await  *)
(* between its reads and writes of `sessions` is one atomic step, and the  *)
(* steps of different callers interleave freely.  The operating system     *)
(* side (a worker exiting, a worker reading its stdin, the pipe becoming   *)
(* writable again) is a set of steps of its own.                           *)
(*                                                                         *)
(* Several specifications share the variables.  Spec is the manager with   *)
(* the input side of its workers, SpecStreams the manager with their       *)
(* output side (stdout / stderr 'data' and 'error' events), SpecOrch the   *)
(* file-based orchestrator (autonomous_orchestrator.sh): its main loop,    *)
(* the flag and result files of its work directory and the MCP tasks of    *)
(* its branch, kept in the record `orch`.  SpecMulti runs a second         *)
(* orchestrator (`peer`) for another branch at the same time.  SpecPoc is  *)
(* the proof-of-concept coordinator (simple-poc.js, record `poc`),         *)
(* SpecCoord the event router and the coordinator that injects its queued  *)
(* contexts into the manager's sessions (record `router`).  SpecKb is the  *)
(* shared knowledge file under the commands of                             *)
(* shared_knowledge_manager.sh (record `kb`), SpecJobs the same file under *)
(* the overlapping commands of several agents (record `jobs`), SpecLib the *)
(* calls of the injector library (record `lib`), SpecWs the WebSocket      *)
(* client of the coordinator (record `client`).                            *)
(***************************************************************************)
EXTENDS Integers, Sequences, FiniteSets

\* ------------------------------------------------------------------ bounds
MaxProcs == 2
\* the number of worker processes spawned in one run

MaxInjects == 2
\* the number of injectContext calls issued in one run

PipeCap == 2
\* the number of text units an OS pipe holds before a write is queued

MaxOut == 2
\* the number of stdout chunks the manager receives in one run

MaxTasks == 2
\* the number of MCP tasks of the branch the orchestrator works on

MaxRuns == 2
\* the number of times the orchestrator script is launched

MaxSubtasks == 3
\* the number of subtask ids the events of one run speak of

MaxEvents == 5
\* the number of WebSocket events the coordinator receives in one run

MaxCoordSubtasks == 2
\* the number of subtask ids in the events the event router receives

MaxCoordEvents == 3
\* the number of WebSocket events the event router receives in one run

PercentSpan == 20
\* how far below 0 and above 100 the percentages given to progress go

MaxStamp == 2
\* the number of distinct timestamps in session log records

MaxLines == 3
\* the number of lines of a session log file read on its own

MaxFiles == 3
\* the number of session log files of a project

MaxLinesOfMany == 1
\* the number of lines of each file of a project with several files

MaxKbCalls == 5
\* the number of runs of shared_knowledge_manager.sh

MaxJobs == 4
\* the number of add-* commands the agents run at overlapping times

MaxConnects == 12
\* the number of sockets the WebSocket client opens in one run

\* ------------------------------------------------------------- value sets
AgentTypes == {"a", "b"}
Callers    == {"c1", "c2"}
NoPid      == 0
Pids       == 1..MaxProcs

\* the type of the context records each caller injects
CallerType(c) == IF c = "c1" THEN "dependency_completed" ELSE "custom"

VARIABLES sessions, procs, epipe, calls, lastOp, orch, peer, poc,
          router, kb, lib, client, jobs

\* the session manager's state, and the whole state
mgr == <<sessions, procs, epipe, calls, lastOp>>

vars == <<sessions, procs, epipe, calls, lastOp, orch, peer, poc, router,
          kb, lib, client, jobs>>

\* what a step of the session manager leaves alone
notMgr == <<orch, peer, poc, router, kb, lib, client, jobs>>

\* what a step of the orchestrator leaves alone
notOrch == <<mgr, peer, poc, router, kb, lib, client, jobs>>

\* what a step of either copy of the orchestrator leaves alone
notOrchs == <<mgr, poc, router, kb, lib, client, jobs>>

\* what a step of the proof-of-concept coordinator leaves alone
notPoc == <<mgr, orch, peer, router, kb, lib, client, jobs>>

\* what a step of the coordinator (event router and session manager) leaves
\* alone
notCoord == <<orch, peer, poc, kb, lib, client, jobs>>

\* what a call of the shared knowledge manager leaves alone
notKb == <<mgr, orch, peer, poc, router, lib, client, jobs>>

\* what a call of the injector library leaves alone
notLib == <<mgr, orch, peer, poc, router, kb, client, jobs>>

\* what a step of the WebSocket client leaves alone
notClient == <<mgr, orch, peer, poc, router, kb, lib, jobs>>

\* what a step of a running knowledge command leaves alone
notJobs == <<mgr, orch, peer, poc, router, lib, client>>

\* -------------------------------------------------------------- text units
\* The text written to a worker is a sequence of units.  A unit is a piece
\* of one payload's text (its first line, or the lines after it, tagged
\* with the call that produced it) or a newline character at either end.
NL == [k |-> "nl", c |-> "-", n |-> 0]

Unit(kind, d) == [k |-> kind, c |-> d.caller, n |-> d.seq]

\* buildContextInjection: the text of one context record.  The two known
\* types are trimmed templates with inner line breaks; any other type is
\* rendered as "\n[Event: type]\n{json}", which starts with a newline.
buildContextInjection(d) ==
  CASE d.type = "dependency_completed" ->
         <<Unit("update", d), Unit("proceed", d)>>
    [] d.type = "task_ready" ->
         <<Unit("ready", d), Unit("begin", d)>>
    [] OTHER ->
         <<NL, Unit("event", d), Unit("json", d)>>

Min(x, y) == IF x <= y THEN x ELSE y

\* ---------------------------------------------------------------- registry
\* [mutant] a lookup that falls back to any registered session
SessionsGetAny(s, k) ==
  IF s[k] # NoPid \/ \A x \in DOMAIN s : s[x] = NoPid THEN s[k]
  ELSE s[CHOOSE x \in DOMAIN s : s[x] # NoPid]

\* sessions.get(agentType): the pid of the registered session, NoPid if none
SessionsGet(s, k) == s[k]

\* sessions.set(agentType, session)
SessionsSet(s, k, pid) == [s EXCEPT ![k] = pid]

\* [mutant] a delete that removes nothing
SessionsDeleteNothing(s, k) == s

\* sessions.delete(agentType)
SessionsDelete(s, k) == [s EXCEPT ![k] = NoPid]

\* [mutant] a clear that removes nothing
SessionsClearNothing(s) == s

\* sessions.clear()
SessionsClear(s) == [k \in DOMAIN s |-> NoPid]

\* the truth test `if (session)` on sessions.get(agentType)
IsSessionActive(k) == SessionsGet(sessions, k) # NoPid

\* --------------------------------------------------------------- processes
\* buildInitialQuery(taskContext): the text of the first query, one unit
buildInitialQuery(k) == [k |-> "query", c |-> k, n |-> 0]

\* [mutant] a spawn without the initial query among its arguments
NewProcNoQuery(k) ==
  [agentType |-> k, alive |-> TRUE, signalled |-> FALSE,
   exitHandled |-> FALSE, stdin |-> <<>>, room |-> PipeCap, wbuf |-> <<>>,
   spawned |-> TRUE, argv |-> <<>>, outputBuffer |-> <<>>,
   uncaught |-> "none"]

\* spawn('claude', ['-p', '--append-system-prompt', systemPrompt,
\* initialQuery], {stdio: ['pipe','pipe','pipe']}) and the session object
\* built around it.  argv is what the worker is started with, outputBuffer
\* the session's accumulated stdout, uncaught the 'error' event of the
\* child or of one of its output streams that found no listener.
NewProc(k) ==
  [agentType |-> k, alive |-> TRUE, signalled |-> FALSE,
   exitHandled |-> FALSE, stdin |-> <<>>, room |-> PipeCap, wbuf |-> <<>>,
   spawned |-> TRUE, argv |-> <<buildInitialQuery(k)>>,
   outputBuffer |-> <<>>, uncaught |-> "none"]

\* the same call when the executable cannot be launched: spawn still
\* returns a child object, which never runs; the failure is announced
\* later by an 'error' event of the child, and no 'exit' event follows.
FailedProc(k) == [NewProc(k) EXCEPT !.alive = FALSE, !.spawned = FALSE]

\* [mutant] a write that waits for a lock held for another session's write
\* and hands the stream nothing meanwhile
StdinWriteHeld(p, chunk) == p

\* [mutant] a write that goes to the pipe without looking at the queue
StdinWriteNoQueue(p, chunk) ==
  IF ~p.alive THEN p
  ELSE LET n == Min(p.room, Len(chunk)) IN
       [p EXCEPT !.stdin = @ \o SubSeq(chunk, 1, n),
                 !.room  = @ - n,
                 !.wbuf  = SubSeq(chunk, n + 1, Len(chunk))]

\* [mutant] a write that is queued in front of the pending writes
StdinWriteQueueFront(p, chunk) ==
  IF ~p.alive THEN p
  ELSE IF p.wbuf # <<>> THEN [p EXCEPT !.wbuf = chunk \o @]
  ELSE LET n == Min(p.room, Len(chunk)) IN
       [p EXCEPT !.stdin = @ \o SubSeq(chunk, 1, n),
                 !.room  = @ - n,
                 !.wbuf  = SubSeq(chunk, n + 1, Len(chunk))]

\* session.process.stdin.write(chunk): the stream hands the pipe as much of
\* the chunk as the pipe takes now and queues the rest behind what is
\* already queued; a write to the pipe of an exited worker fails with EPIPE
\* and delivers nothing.
StdinWrite(p, chunk) ==
  IF ~p.alive THEN p
  ELSE IF p.wbuf # <<>> THEN [p EXCEPT !.wbuf = @ \o chunk]
  ELSE LET n == Min(p.room, Len(chunk)) IN
       [p EXCEPT !.stdin = @ \o SubSeq(chunk, 1, n),
                 !.room  = @ - n,
                 !.wbuf  = SubSeq(chunk, n + 1, Len(chunk))]

\* the stream's pending writes when the pipe is writable again
StdinFlush(p) ==
  IF ~p.alive THEN [p EXCEPT !.wbuf = <<>>]
  ELSE LET n == Min(p.room, Len(p.wbuf)) IN
       [p EXCEPT !.stdin = @ \o SubSeq(p.wbuf, 1, n),
                 !.room  = @ - n,
                 !.wbuf  = SubSeq(p.wbuf, n + 1, Len(p.wbuf))]

\* session.process.kill('SIGTERM')
Kill(p) == [p EXCEPT !.signalled = TRUE]

\* a write to the stdin pipe of an exited worker fails with EPIPE, emitted
\* as an 'error' event of the stream
Epipe(p) == ~p.alive

\* No 'error' listener is registered on a child, on its stdin stream or on
\* its stdout / stderr streams, so an EPIPE, a failed launch or a failed
\* read is an uncaught exception that ends the coordinator.
crashed ==
  \/ epipe # NoPid
  \/ \E pid \in DOMAIN procs : procs[pid].uncaught # "none"

\* the number of context records caller c has issued
Issued(c) == Cardinality({<<calls[i].caller, calls[i].seq>> :
                            i \in {j \in DOMAIN calls : calls[j].caller = c}})

\* what startSession returns: null when the prompt file cannot be read,
\* the session object otherwise
StartResult(promptOk) == IF promptOk THEN "session" ELSE "null"

\* what injectContext returns: undefined on both of its paths
InjectResult(pid) == "returned"

\* [mutant] a stopSession without the `if (session)` test
StopResultUnguarded(pid) == IF pid = NoPid THEN "TypeError" ELSE "returned"

\* what stopSession returns: undefined, whether or not a session was found
StopResult(pid) == "returned"

NoResults == [k \in {} |-> "-"]

NoOp == [op |-> "none", key |-> "-", wasActive |-> FALSE, result |-> "-",
         results |-> NoResults]

\* ------------------------------------------- the orchestrator's workspace
\* autonomous_orchestrator.sh: the files of WORK_DIR it tests, creates and
\* removes, the MCP tasks of its branch, and its place in main_loop.
TaskIds == 1..MaxTasks
NoTask  == 0

\* the flags check_workflow_complete tests; the other two flag files are
\* workflow_complete and human_intervention_needed
CondFlags == {"tests_passed", "review_approved", "security_passed"}

\* test_results.json, review_results.json, security_results.json and the
\* flag each one decides
Validations == {"test", "review", "security"}
FlagOf(v) ==
  CASE v = "test" -> "tests_passed"
    [] v = "review" -> "review_approved"
    [] v = "security" -> "security_passed"

\* The script is not running and WORK_DIR holds none of these files.
\* flags: the *.flag files; taskResults: the ids t with a file
\* task_result_<t>.json; results: what each *_results.json says.
OrchOff ==
  [pc |-> "off", flags |-> {}, taskResults |-> {},
   results |-> [v \in Validations |-> "none"],
   tasks |-> [t \in TaskIds |-> "todo"], current |-> NoTask, runs |-> 0]

\* A second copy of the script, started for another branch
\* (GIT_BRANCH_ID): its own place in main_loop and the MCP tasks of its
\* own branch.  WORK_DIR does not depend on the branch, so the files it
\* works on are the ones held in `orch`.
PeerTaskIds == {MaxTasks + 1}

\* peer holds the files of a directory of its own, which the second copy
\* works on if its WORK_DIR is another one than the first copy's
PeerOff ==
  [pc |-> "off", flags |-> {}, taskResults |-> {},
   results |-> [v \in Validations |-> "none"],
   tasks |-> [t \in PeerTaskIds |-> "todo"], current |-> NoTask, runs |-> 0]

\* ------------------------------------- the proof-of-concept coordinator
\* simple-poc.js: the events it has received, its dependency graph
\* (subtask id -> node) and the queue of contexts of each agent
\* (agentQueues, written to <agent>_queue.json at every enqueue).
SubtaskIds == 1..MaxSubtasks
NoSubtask  == 0

\* dependencyGraph.get(id) of an id the graph does not hold
NoNode ==
  [known |-> FALSE, assignees |-> <<>>, dependencies |-> <<>>,
   dependents |-> <<>>, status |-> "none", progress |-> "unset"]

\* const eventHistory = []; const dependencyGraph = new Map();
\* const agentQueues = new Map();  eventHistory is only appended to and
\* written out at shutdown: its length is kept.
PocInit ==
  [eventHistory |-> 0,
   dependencyGraph |-> [s \in SubtaskIds |-> NoNode],
   agentQueues |-> [k \in AgentTypes |-> <<>>]]

\* ------------------------------------------------------- the event router
\* EventRouter (event-router.js) as the coordinator (index.js) uses it.
\* eventHistory: the events received; dependencyGraph: subtask id ->
\* {dependencies, dependents}; agentQueues: agentType -> contexts, with
\* queueOrder the order in which the Map got its keys.  visiting: the
\* agents checkPendingInjections has still to look at for the event being
\* handled; starting: the agents the 'subtask.created' handler has still
\* to start a session for; enqueued: the number of contexts enqueued so
\* far, which stands for the enqueued_at stamp of the next one.
CoordSubtaskIds == 1..MaxCoordSubtasks

NoRouterNode == [known |-> FALSE, dependencies |-> <<>>, dependents |-> <<>>]

RouterInit ==
  [eventHistory |-> <<>>,
   dependencyGraph |-> [s \in CoordSubtaskIds |-> NoRouterNode],
   agentQueues |-> [k \in AgentTypes |-> <<>>],
   queueOrder |-> <<>>, visiting |-> <<>>, starting |-> <<>>,
   enqueued |-> 0]

\* ------------------------------------------- the shared knowledge file
\* shared_knowledge_manager.sh works on one file,
\* /tmp/agenthub_autonomous/shared_knowledge.json.  file: "missing" before
\* init, "json" while it holds the JSON document, "empty" when it has been
\* replaced by a file of no bytes.  The sections that are lists are
\* sequences of entries; clock is what `date` says, counted in calls; out
\* is what the last get-messages printed.
KbMissing ==
  [file |-> "missing", workflow_start_time |-> 0, current_phase |-> "-",
   discoveries |-> <<>>, warnings |-> <<>>, communication_log |-> <<>>,
   clock |-> 0, cmd |-> "none", asked |-> "-", out |-> <<>>]

\* ------------------------------------------------- the injector library
\* One call of the library: its arguments (the percentage and the message
\* of progress, or the session log files of the project that
\* get_project_sessions reads) and, once it has returned, its result.
NoResult ==
  [ok |-> FALSE, error |-> "-", body |-> <<>>, sessions |-> <<>>,
   warnings |-> 0]

LibCall(kind, p, m, files) ==
  [kind |-> kind, p |-> p, m |-> m, files |-> files, returned |-> FALSE,
   result |-> NoResult]

LibIdle == LibCall("none", 0, "-", <<>>)

\* ----------------------------------------------------- the WebSocket client
\* AgentHubWebSocketClient (websocket-client.js): ws is the state of the
\* socket this.ws holds ("null" before connect()), timers the number of
\* pending `setTimeout(() => this.connect(), delay)`, connects the number
\* of sockets opened so far, closeCalled whether close() has been called,
\* uncaught whether an 'error' event found no listener, exited whether the
\* process has ended.
ClientInit ==
  [ws |-> "null", reconnectAttempts |-> 0, timers |-> 0, connects |-> 0,
   closeCalled |-> FALSE, uncaught |-> FALSE, exited |-> FALSE]

\* ------------------------------------------ knowledge commands in progress
\* KNOWLEDGE_FILE.tmp, the one path every add-* command writes to, and the
\* position of each agent's running command; returned counts the add-*
\* commands that have ended.
Writers == {"coding-agent", "test-agent"}

NoTmp == [exists |-> FALSE, doc |-> KbMissing]

JobIdle == [pc |-> "idle", cmd |-> "-", text |-> <<>>]

JobsInit ==
  [tmp |-> NoTmp, of |-> [w \in Writers |-> JobIdle], returned |-> 0]

InitCore ==
  /\ sessions = [k \in AgentTypes |-> NoPid]
  /\ procs = <<>>
  /\ epipe = NoPid
  /\ calls = <<>>
  /\ lastOp = NoOp
  /\ orch = OrchOff
  /\ peer = PeerOff
  /\ poc = PocInit
  /\ router = RouterInit
  /\ kb = KbMissing
  /\ client = ClientInit
  /\ jobs = JobsInit

Init ==
  /\ InitCore
  /\ lib = LibIdle

\* ----------------------------------------------------------------- actions
\* startSession(agentType, taskId, taskContext).  The prompt file is read
\* first; a read failure returns null before anything is spawned.  The
\* awaits of the method (the prompt file read, the task file write) come
\* before the spawn; the spawn, sessions.set and the handler registrations
\* follow without an await in between.  sessions is not consulted, and
\* the child object is registered whether or not the launch succeeded.
startSession(k, promptOk, spawnOk) ==
  /\ ~crashed
  /\ ~promptOk \/ Len(procs) < MaxProcs
  /\ promptOk \/ spawnOk
  /\ IF promptOk
       THEN /\ procs' = Append(procs, IF spawnOk THEN NewProc(k)
                                                ELSE FailedProc(k))
            /\ sessions' = SessionsSet(sessions, k, Len(procs) + 1)
       ELSE UNCHANGED <<procs, sessions>>
  /\ lastOp' = [op |-> "start", key |-> k, wasActive |-> IsSessionActive(k),
                result |-> StartResult(promptOk),
                results |-> NoResults]
  /\ UNCHANGED <<epipe, calls>>

\* startSession called by a caller outside the coordinator's event handlers
StartSession(k, promptOk, spawnOk) ==
  /\ startSession(k, promptOk, spawnOk)
  /\ UNCHANGED notMgr

\* injectContext(agentType, contextData), called by caller c with its next
\* context record.  Without a session it logs and returns; otherwise it
\* writes buildContextInjection(contextData) + '\n' in one write call.
InjectContext(c, k) ==
  LET t     == CallerType(c)
      d     == [caller |-> c, seq |-> Issued(c) + 1, type |-> t]
      pid   == SessionsGet(sessions, k)
      chunk == buildContextInjection(d) \o <<NL>>
  IN
  /\ ~crashed
  /\ Len(calls) < MaxInjects
  /\ calls' = Append(calls, [caller |-> c, seq |-> d.seq, type |-> t,
                             key |-> k, pid |-> pid])
  /\ IF pid = NoPid
       THEN UNCHANGED <<procs, epipe>>
       ELSE /\ procs' = [procs EXCEPT ![pid] = StdinWrite(@, chunk)]
            /\ epipe' = IF Epipe(procs[pid]) THEN pid ELSE NoPid
  /\ lastOp' = [op |-> "inject", key |-> k, wasActive |-> pid # NoPid,
                result |-> InjectResult(pid), results |-> NoResults]
  /\ UNCHANGED sessions
  /\ UNCHANGED notMgr

\* stopSession(agentType)
StopSession(k) ==
  LET pid == SessionsGet(sessions, k) IN
  /\ ~crashed
  /\ IF pid # NoPid
       THEN /\ procs' = [procs EXCEPT ![pid] = Kill(@)]
            /\ sessions' = SessionsDelete(sessions, k)
       ELSE UNCHANGED <<procs, sessions>>
  /\ lastOp' = [op |-> "stop", key |-> k, wasActive |-> pid # NoPid,
                result |-> StopResult(pid), results |-> NoResults]
  /\ UNCHANGED <<epipe, calls>>
  /\ UNCHANGED notMgr

\* stopAllSessions()
StopAllSessions ==
  /\ ~crashed
  /\ procs' = [i \in DOMAIN procs |->
                 IF \E k \in AgentTypes : SessionsGet(sessions, k) = i
                   THEN Kill(procs[i]) ELSE procs[i]]
  /\ sessions' = SessionsClear(sessions)
  /\ lastOp' = [op |-> "stopAll", key |-> "-", wasActive |-> FALSE,
                result |-> "returned", results |-> NoResults]
  /\ UNCHANGED <<epipe, calls>>
  /\ UNCHANGED notMgr

\* broadcast(payload) of the process manager: one inject per session that
\* is active at the call, each with its own result; a target whose worker
\* has exited yields SessionNotActive for that target alone.
\* [mutant] a broadcast that gives up at the first target
BroadcastFirstOnly(s) ==
  IF \A k \in DOMAIN s : s[k] = NoPid THEN {}
  ELSE {CHOOSE k \in DOMAIN s : s[k] # NoPid}

BroadcastTargets(s) == {k \in DOMAIN s : SessionsGet(s, k) # NoPid}

BroadcastResult(p) == IF Epipe(p) THEN "SessionNotActive" ELSE "Ok"

Broadcast(c) ==
  LET t       == CallerType(c)
      d       == [caller |-> c, seq |-> Issued(c) + 1, type |-> t]
      chunk   == buildContextInjection(d) \o <<NL>>
      targets == BroadcastTargets(sessions)
      order   == CHOOSE q \in [1..Cardinality(targets) -> targets] :
                   \A i, j \in DOMAIN q : i # j => q[i] # q[j]
  IN
  /\ ~crashed
  /\ targets # {}
  /\ Len(calls) + Cardinality(targets) <= MaxInjects
  /\ calls' = calls \o [i \in DOMAIN order |->
                          [caller |-> c, seq |-> d.seq, type |-> t,
                           key |-> order[i],
                           pid |-> SessionsGet(sessions, order[i])]]
  /\ procs' = [i \in DOMAIN procs |->
                 IF \E k \in targets : SessionsGet(sessions, k) = i
                   THEN StdinWrite(procs[i], chunk) ELSE procs[i]]
  /\ lastOp' = [op |-> "broadcast", key |-> "-", wasActive |-> FALSE,
                result |-> "returned",
                results |-> [k \in targets |->
                               BroadcastResult(procs[SessionsGet(sessions, k)])]]
  /\ UNCHANGED <<sessions, epipe>>
  /\ UNCHANGED notMgr

\* A worker exits: on its own, or after SIGTERM.  Its end of the stdin pipe
\* closes.  The manager has not been told yet.
ProcExit(pid) ==
  /\ ~crashed
  /\ pid \in DOMAIN procs
  /\ procs[pid].alive
  /\ procs' = [procs EXCEPT ![pid].alive = FALSE]
  /\ lastOp' = NoOp
  /\ UNCHANGED <<sessions, epipe, calls>>
  /\ UNCHANGED notMgr

\* claudeProcess.on('exit', ...): deletes the entry of the agentType the
\* handler closed over, whichever session is registered there now.
ExitEvent(pid) ==
  /\ ~crashed
  /\ pid \in DOMAIN procs
  /\ procs[pid].spawned
  /\ ~procs[pid].alive
  /\ ~procs[pid].exitHandled
  /\ procs' = [procs EXCEPT ![pid].exitHandled = TRUE]
  /\ sessions' = SessionsDelete(sessions, procs[pid].agentType)
  /\ lastOp' = NoOp
  /\ UNCHANGED <<epipe, calls>>
  /\ UNCHANGED notMgr

\* The worker reads what is in its stdin pipe; the pipe is writable again
\* and the stdin stream of the session continues its queued writes.
WorkerRead(pid) ==
  /\ ~crashed
  /\ pid \in DOMAIN procs
  /\ procs[pid].alive
  /\ procs[pid].room < PipeCap
  /\ procs' = [procs EXCEPT ![pid] = StdinFlush([@ EXCEPT !.room = PipeCap])]
  /\ lastOp' = NoOp
  /\ UNCHANGED <<sessions, epipe, calls>>
  /\ UNCHANGED notMgr

\* The stdin stream of a session continues its queued writes after the
\* worker has exited: the write fails with EPIPE.
FlushClosed(pid) ==
  /\ ~crashed
  /\ pid \in DOMAIN procs
  /\ procs[pid].wbuf # <<>>
  /\ Epipe(procs[pid])
  /\ procs' = [procs EXCEPT ![pid] = StdinFlush(@)]
  /\ epipe' = pid
  /\ lastOp' = NoOp
  /\ UNCHANGED <<sessions, calls>>
  /\ UNCHANGED notMgr

\* The 'error' event of a child that could not be launched.  It is emitted
\* on the tick after spawn returned; no listener is registered for it.
SpawnErrorEvent(pid) ==
  /\ ~crashed
  /\ pid \in DOMAIN procs
  /\ ~procs[pid].spawned
  /\ procs' = [procs EXCEPT ![pid].uncaught = "spawn"]
  /\ lastOp' = NoOp
  /\ UNCHANGED <<sessions, epipe, calls>>
  /\ UNCHANGED notMgr

Next ==
  \/ \E k \in AgentTypes, ok, sp \in BOOLEAN : StartSession(k, ok, sp)
  \/ \E c \in Callers, k \in AgentTypes : InjectContext(c, k)
  \/ \E k \in AgentTypes : StopSession(k)
  \/ StopAllSessions
  \/ \E c \in Callers : Broadcast(c)
  \/ \E pid \in Pids : ProcExit(pid)
  \/ \E pid \in Pids : ExitEvent(pid)
  \/ \E pid \in Pids : WorkerRead(pid)
  \/ \E pid \in Pids : FlushClosed(pid)
  \/ \E pid \in Pids : SpawnErrorEvent(pid)

Spec == Init /\ [][Next]_vars

\* ------------------------------------------------- stdout / stderr streams
\* The chunks a worker writes to its stdout: plain text, text with a
\* blocking marker, text with a completion marker.
OutputChunks == {"text", "BLOCKED", "TASK_COMPLETE"}

\* output.includes(marker) on the accumulated buffer
Includes(buf, marker) == \E i \in DOMAIN buf : buf[i] = marker

\* checkCompletionSignals(agentType, session): what it logs for the
\* accumulated output.  It changes nothing and calls nothing else.
checkCompletionSignals(buf) ==
  [completion |-> Includes(buf, "TASK_COMPLETE"),
   blocked    |-> Includes(buf, "BLOCKED")]

\* what the two tests of checkCompletionSignals print
SignalLog(sig) ==
  IF sig.blocked THEN (IF sig.completion THEN "completion+blocked" ELSE "blocked")
  ELSE (IF sig.completion THEN "completion" ELSE "-")

\* the number of stdout chunks received from the first n workers
RECURSIVE OutputCount(_)
OutputCount(n) ==
  IF n = 0 THEN 0 ELSE OutputCount(n - 1) + Len(procs[n].outputBuffer)

\* [mutant] a stdout handler that stops the worker it finds blocked
StdoutOnDataStopBlocked(p, out) ==
  [p EXCEPT !.outputBuffer = Append(@, out),
            !.signalled = @ \/ Includes(Append(p.outputBuffer, out), "BLOCKED")]

\* claudeProcess.stdout.on('data', ...): session.outputBuffer += output
StdoutOnData(p, out) == [p EXCEPT !.outputBuffer = Append(@, out)]

\* A chunk of a worker's stdout arrives.  The handler keeps working on the
\* session object it closed over, registered or not.
StdoutData(pid, out) ==
  /\ ~crashed
  /\ pid \in DOMAIN procs
  /\ procs[pid].spawned
  /\ OutputCount(Len(procs)) < MaxOut
  /\ procs' = [procs EXCEPT ![pid] = StdoutOnData(@, out)]
  /\ lastOp' = [NoOp EXCEPT
                  !.op = "stdout",
                  !.result = SignalLog(checkCompletionSignals(
                                         procs'[pid].outputBuffer))]
  /\ UNCHANGED <<sessions, epipe, calls>>
  /\ UNCHANGED notMgr

\* claudeProcess.stderr.on('data', ...): the chunk is logged, nothing else
StderrData(pid) ==
  /\ ~crashed
  /\ pid \in DOMAIN procs
  /\ procs[pid].spawned
  /\ lastOp' = [NoOp EXCEPT !.op = "stderr"]
  /\ UNCHANGED <<sessions, procs, epipe, calls>>
  /\ UNCHANGED notMgr

\* A read of a worker's stdout or stderr pipe fails: the stream emits
\* 'error'.  Only 'data' listeners are registered on the two streams.
ReadError(pid, stream) ==
  /\ ~crashed
  /\ pid \in DOMAIN procs
  /\ procs[pid].spawned
  /\ procs' = [procs EXCEPT ![pid].uncaught = stream]
  /\ lastOp' = NoOp
  /\ UNCHANGED <<sessions, epipe, calls>>
  /\ UNCHANGED notMgr

\* The manager with the output side of its workers: startSession,
\* injectContext of one caller, stopSession and the events of the children
\* and of their stdout / stderr streams.  What the workers do with their
\* stdin (WorkerRead, FlushClosed) is left to Spec: no handler of the
\* output side reads or writes stdin, room or wbuf.
NextStreams ==
  \/ \E k \in AgentTypes, ok, sp \in BOOLEAN : StartSession(k, ok, sp)
  \/ \E k \in AgentTypes : InjectContext("c1", k)
  \/ \E k \in AgentTypes : StopSession(k)
  \/ \E pid \in Pids : ProcExit(pid)
  \/ \E pid \in Pids : ExitEvent(pid)
  \/ \E pid \in Pids : SpawnErrorEvent(pid)
  \/ \E pid \in Pids, out \in OutputChunks : StdoutData(pid, out)
  \/ \E pid \in Pids : StderrData(pid)
  \/ \E pid \in Pids, stream \in {"stdout", "stderr"} : ReadError(pid, stream)

SpecStreams == Init /\ [][NextStreams]_vars

\* ------------------------------------------------------------ orchestrator
\* setup_workspace: mkdir -p, then rm -f of WORK_DIR/*.json, *.flag, *.log
setup_workspace(o) ==
  [o EXCEPT !.flags = {}, !.taskResults = {},
            !.results = [v \in Validations |-> "none"]]

\* the test `[ "$pending_count" -gt 0 ]` of check_workflow_complete.  When
\* the list call returns nothing that jq can count, pending_count is the
\* empty string, the test is an error of `[`, and the `if` takes it as
\* false.
PendingTest(o, listOk) ==
  listOk /\ Cardinality({t \in DOMAIN o.tasks : o.tasks[t] # "done"}) > 0

\* check_workflow_complete: its return value (TRUE for 0)
check_workflow_complete(o, listOk) ==
  /\ ~PendingTest(o, listOk)
  /\ "tests_passed" \in o.flags
  /\ "review_approved" \in o.flags
  /\ "security_passed" \in o.flags

\* update_task_status / complete_task: a curl call whose outcome is not
\* looked at; the status changes if the call got through
update_task_status(o, t, status, apiOk) ==
  IF apiOk THEN [o EXCEPT !.tasks[t] = status] ELSE o

\* run_tests / run_code_review / run_security_audit.  The agent writes the
\* results file ("pass" / "fail") or leaves the directory as it was
\* ("nofile"); the function ignores call_agent's return value, reads the
\* results file if one exists, and touches or removes the flag.
run_validation(o, v, outcome) ==
  LET res == IF outcome = "nofile" THEN o.results[v] ELSE outcome IN
  [o EXCEPT !.results[v] = res,
            !.flags = CASE res = "pass" -> @ \cup {FlagOf(v)}
                        [] res = "fail" -> @ \ {FlagOf(v)}
                        [] OTHER -> @]

\* Each step of the script is given as the set of records it can leave
\* behind when taken from the record o (the files of WORK_DIR together
\* with the script's own tasks and place): empty when the script is not
\* at that step.

\* main: the tool and GIT_BRANCH_ID checks passed; setup_workspace,
\* create_agent_prompts, then main_loop.  The first launch fixes the tasks
\* of the branch.
MainStep(o, branchTasks) ==
  IF o.pc \in {"off", "done"} /\ o.runs < MaxRuns
    THEN {[setup_workspace(o) EXCEPT
             !.pc = "top", !.runs = @ + 1, !.current = NoTask,
             !.tasks = IF o.runs = 0 THEN branchTasks ELSE @]}
    ELSE {}

Main(branchTasks) ==
  /\ orch' \in MainStep(orch, branchTasks)
  /\ UNCHANGED notOrch

\* main_loop, head of an iteration: `if check_workflow_complete; then
\* break`.  check_workflow_complete touches workflow_complete.flag when it
\* returns 0.
CheckWorkflowCompleteStep(o, listOk) ==
  IF o.pc \in {"top", "recheck"}
    THEN {IF check_workflow_complete(o, listOk)
            THEN [o EXCEPT !.pc = "done",
                           !.flags = @ \cup {"workflow_complete"}]
            ELSE [o EXCEPT !.pc = IF o.pc = "top" THEN "fetch" ELSE "top"]}
    ELSE {}

CheckWorkflowComplete(listOk) ==
  /\ orch' \in CheckWorkflowCompleteStep(orch, listOk)
  /\ UNCHANGED notOrch

\* get_next_task and what follows it up to the call of the agent.  The MCP
\* server answers with a task that is not done, or with nothing (no task
\* to recommend, or no answer at all).
GetNextTaskStep(o, next, apiOk) ==
  IF o.pc # "fetch" THEN {}
  ELSE IF next = NoTask THEN {[o EXCEPT !.pc = "tests"]}
  ELSE IF next \in DOMAIN o.tasks /\ o.tasks[next] # "done"
    THEN {[update_task_status(o, next, "in_progress", apiOk)
             EXCEPT !.pc = "agent", !.current = next]}
    ELSE {}

GetNextTask(next, apiOk) ==
  /\ orch' \in GetNextTaskStep(orch, next, apiOk)
  /\ UNCHANGED notOrch

\* "Running final validation": run_tests, run_code_review and
\* run_security_audit, in this order
RunValidationStep(o, v, outcome) ==
  IF o.pc = (CASE v = "test" -> "tests"
               [] v = "review" -> "review"
               [] v = "security" -> "security")
    THEN {[run_validation(o, v, outcome) EXCEPT
             !.pc = CASE v = "test" -> "review"
                      [] v = "review" -> "security"
                      [] v = "security" -> "recheck"]}
    ELSE {}

RunValidation(v, outcome) ==
  /\ orch' \in RunValidationStep(orch, v, outcome)
  /\ UNCHANGED notOrch

\* [mutant] a blocked result that raises the flag and goes on with the loop
CallAgentNoWaitStep(o, outcome, apiOk) ==
  LET t == o.current
      w == IF outcome = "agent_failed" THEN o
           ELSE [o EXCEPT !.taskResults = @ \cup {t}]
  IN
  IF o.pc # "agent" THEN {}
  ELSE {CASE outcome = "success" ->
               [update_task_status(w, t, "done", apiOk) EXCEPT !.pc = "top"]
          [] outcome = "blocked" ->
               [update_task_status(w, t, "blocked", apiOk) EXCEPT
                  !.pc = "top",
                  !.flags = @ \cup {"human_intervention_needed"}]
          [] outcome = "failed" ->
               [update_task_status(w, t, "in_progress", apiOk) EXCEPT
                  !.pc = "top"]
          [] outcome = "agent_failed" ->
               [update_task_status(w, t, "blocked", apiOk) EXCEPT
                  !.pc = "top"]}

\* call_agent for the current task and the branches on its result:
\* "success" completes the task, "blocked" raises
\* human_intervention_needed.flag and waits, "failed" leaves the task in
\* progress; "agent_failed" (nonzero exit or no result file) marks the
\* task blocked and goes on.
CallAgentStep(o, outcome, apiOk) ==
  LET t == o.current
      w == IF outcome = "agent_failed" THEN o
           ELSE [o EXCEPT !.taskResults = @ \cup {t}]
  IN
  IF o.pc # "agent" THEN {}
  ELSE {CASE outcome = "success" ->
               [update_task_status(w, t, "done", apiOk) EXCEPT !.pc = "top"]
          [] outcome = "blocked" ->
               [update_task_status(w, t, "blocked", apiOk) EXCEPT
                  !.pc = "wait_human",
                  !.flags = @ \cup {"human_intervention_needed"}]
          [] outcome = "failed" ->
               [update_task_status(w, t, "in_progress", apiOk) EXCEPT
                  !.pc = "top"]
          [] outcome = "agent_failed" ->
               [update_task_status(w, t, "blocked", apiOk) EXCEPT
                  !.pc = "top"]}

CallAgent(outcome, apiOk) ==
  /\ orch' \in CallAgentStep(orch, outcome, apiOk)
  /\ UNCHANGED notOrch

\* `while [ -f human_intervention_needed.flag ]; do sleep 5; done` ends
ResumeAfterHumanStep(o) ==
  IF o.pc = "wait_human" /\ "human_intervention_needed" \notin o.flags
    THEN {[o EXCEPT !.pc = "top"]}
    ELSE {}

ResumeAfterHuman ==
  /\ orch' \in ResumeAfterHumanStep(orch)
  /\ UNCHANGED notOrch

\* a person removes human_intervention_needed.flag
HumanResolves ==
  /\ "human_intervention_needed" \in orch.flags
  /\ orch' = [orch EXCEPT !.flags = @ \ {"human_intervention_needed"}]
  /\ UNCHANGED notOrch

\* a person asks for a stop: touch WORK_DIR/workflow_complete.flag while
\* the script runs
TouchStopFlag ==
  /\ orch.pc \notin {"off", "done"}
  /\ "workflow_complete" \notin orch.flags
  /\ orch' = [orch EXCEPT !.flags = @ \cup {"workflow_complete"}]
  /\ UNCHANGED notOrch

\* the script is interrupted (the INT / TERM trap exits) or killed
InterruptStep(o) ==
  IF o.pc \notin {"off", "done"} THEN {[o EXCEPT !.pc = "off"]} ELSE {}

Interrupt ==
  /\ orch' \in InterruptStep(orch)
  /\ UNCHANGED notOrch

NextOrch ==
  \/ \E bt \in [TaskIds -> {"todo", "done"}] : Main(bt)
  \/ \E listOk \in BOOLEAN : CheckWorkflowComplete(listOk)
  \/ \E next \in TaskIds \cup {NoTask}, apiOk \in BOOLEAN :
       GetNextTask(next, apiOk)
  \/ \E v \in Validations, outcome \in {"pass", "fail", "nofile"} :
       RunValidation(v, outcome)
  \/ \E outcome \in {"success", "blocked", "failed", "agent_failed"},
        apiOk \in BOOLEAN : CallAgent(outcome, apiOk)
  \/ ResumeAfterHuman
  \/ HumanResolves
  \/ TouchStopFlag
  \/ Interrupt

SpecOrch == Init /\ [][NextOrch]_vars

\* The script is a running process: when its wait loop finds the flag
\* gone, the loop ends.
FairSpecOrch == SpecOrch /\ WF_vars(ResumeAfterHuman)

\* ------------------------------------------------- two orchestrators
\* The script started twice, for two branches.  GIT_BRANCH_ID is an
\* environment variable of each process; WORK_DIR is assigned a fixed path
\* at the top of the script.
OrchBranch == "branch-1"
PeerBranch == "branch-2"

\* WORK_DIR="/tmp/agenthub_autonomous"
WORK_DIR(gitBranchId) == "/tmp/agenthub_autonomous"

\* the files of a record
Workspace(o) ==
  [flags |-> o.flags, taskResults |-> o.taskResults, results |-> o.results]

\* what the second process sees: its own place and tasks, and the files of
\* its WORK_DIR
PeerView ==
  IF WORK_DIR(PeerBranch) = WORK_DIR(OrchBranch)
    THEN [peer EXCEPT !.flags = orch.flags,
                      !.taskResults = orch.taskResults,
                      !.results = orch.results]
    ELSE peer

\* the second process leaves the record n behind
PeerTake(n) ==
  /\ IF WORK_DIR(PeerBranch) = WORK_DIR(OrchBranch)
       THEN /\ orch' = [orch EXCEPT !.flags = n.flags,
                                    !.taskResults = n.taskResults,
                                    !.results = n.results]
            /\ peer' = [n EXCEPT !.flags = peer.flags,
                                 !.taskResults = peer.taskResults,
                                 !.results = peer.results]
       ELSE /\ peer' = n
            /\ UNCHANGED orch
  /\ UNCHANGED notOrchs

PeerMain(branchTasks) ==
  \E n \in MainStep(PeerView, branchTasks) : PeerTake(n)

PeerCheckWorkflowComplete(listOk) ==
  \E n \in CheckWorkflowCompleteStep(PeerView, listOk) : PeerTake(n)

PeerGetNextTask(next, apiOk) ==
  \E n \in GetNextTaskStep(PeerView, next, apiOk) : PeerTake(n)

PeerRunValidation(v, outcome) ==
  \E n \in RunValidationStep(PeerView, v, outcome) : PeerTake(n)

PeerCallAgent(outcome, apiOk) ==
  \E n \in CallAgentStep(PeerView, outcome, apiOk) : PeerTake(n)

PeerResumeAfterHuman ==
  \E n \in ResumeAfterHumanStep(PeerView) : PeerTake(n)

\* Both processes; every MCP call gets through, every validation agent
\* writes its results file, every task agent writes its result file.
NextMulti ==
  \/ Main([t \in TaskIds |-> "todo"])
  \/ CheckWorkflowComplete(TRUE)
  \/ \E next \in TaskIds \cup {NoTask} : GetNextTask(next, TRUE)
  \/ \E v \in Validations, outcome \in {"pass", "fail"} :
       RunValidation(v, outcome)
  \/ \E outcome \in {"success", "blocked"} : CallAgent(outcome, TRUE)
  \/ ResumeAfterHuman
  \/ HumanResolves
  \/ PeerMain([t \in PeerTaskIds |-> "todo"])
  \/ PeerCheckWorkflowComplete(TRUE)
  \/ \E next \in PeerTaskIds \cup {NoTask} : PeerGetNextTask(next, TRUE)
  \/ \E v \in Validations, outcome \in {"pass", "fail"} :
       PeerRunValidation(v, outcome)
  \/ \E outcome \in {"success", "blocked"} : PeerCallAgent(outcome, TRUE)
  \/ PeerResumeAfterHuman

SpecMulti == Init /\ [][NextMulti]_vars

\* --------------------------------------------- simple-poc.js, its handlers
\* the payload of a subtask.created event: the assignees, and the
\* dependencies field, which may be missing
Assignees == {<<"a">>, <<"a", "b">>}

DepLists ==
  {<<>>} \cup {<<d>> : d \in SubtaskIds}
         \cup {q \in SubtaskIds \X SubtaskIds : q[1] < q[2]}

\* no subtask is created with itself among its dependencies
CreatedPayloads ==
  {payload \in [id : SubtaskIds, assignees : Assignees, hasDeps : {TRUE},
                dependencies : DepLists] :
     \A i \in DOMAIN payload.dependencies :
       payload.dependencies[i] # payload.id}
    \cup [id : SubtaskIds, assignees : Assignees, hasDeps : {FALSE},
          dependencies : {<<>>}]

\* one context record of a queue
Context(type, subtaskId, upstream) ==
  [type |-> type, subtask_id |-> subtaskId, upstream_task |-> upstream]

\* simulateContextInjection(agentType, contextData): push on the agent's
\* queue (and rewrite the queue file from it)
simulateContextInjection(q, agentType, contextData) ==
  [q EXCEPT ![agentType] = Append(@, contextData)]

\* `for (const agent of assignees) simulateContextInjection(agent, ctx)`
RECURSIVE InjectForEach(_, _, _)
InjectForEach(q, assignees, contextData) ==
  IF assignees = <<>> THEN q
  ELSE InjectForEach(simulateContextInjection(q, Head(assignees), contextData),
                     Tail(assignees), contextData)

\* `for (const depId of (dependencies || []))
\*    if (dependencyGraph.has(depId)) dependencyGraph.get(depId).dependents.push(id)`
RECURSIVE PushDependents(_, _, _)
PushDependents(g, deps, id) ==
  IF deps = <<>> THEN g
  ELSE LET d == Head(deps)
           h == IF g[d].known
                  THEN [g EXCEPT ![d].dependents = Append(@, id)]
                  ELSE g
       IN PushDependents(h, Tail(deps), id)

\* [mutant] a check that passes over the dependencies it does not know
checkDependenciesMetSkipUnknown(g, subtaskId) ==
  LET node == g[subtaskId] IN
  IF ~node.known THEN TRUE
  ELSE \A i \in DOMAIN node.dependencies :
         LET depNode == g[node.dependencies[i]] IN
         depNode.known => depNode.status = "completed"

\* checkDependenciesMet(subtaskId)
checkDependenciesMet(g, subtaskId) ==
  LET node == g[subtaskId] IN
  IF ~node.known THEN TRUE
  ELSE \A i \in DOMAIN node.dependencies :
         LET depNode == g[node.dependencies[i]] IN
         depNode.known /\ depNode.status = "completed"

\* handleSubtaskCreated(event)
handleSubtaskCreated(c, payload) ==
  LET id   == payload.id
      deps == payload.dependencies
      g1   == [c.dependencyGraph EXCEPT ![id] =
                 [known |-> TRUE, assignees |-> payload.assignees,
                  dependencies |-> deps, dependents |-> <<>>,
                  status |-> "pending", progress |-> "unset"]]
      g2   == PushDependents(g1, deps, id)
  IN [c EXCEPT
        !.dependencyGraph = g2,
        !.agentQueues =
           IF deps = <<>>
             THEN InjectForEach(@, payload.assignees,
                                Context("task_ready", id, NoSubtask))
             ELSE @]

\* handleSubtaskUpdated(event)
handleSubtaskUpdated(c, id, progress) ==
  IF c.dependencyGraph[id].known
    THEN [c EXCEPT !.dependencyGraph[id].progress = progress]
    ELSE c

\* the loop of handleSubtaskCompleted over node.dependents, on the graph g
\* in which the node is already completed
RECURSIVE TriggerDependents(_, _, _, _)
TriggerDependents(q, g, dependents, id) ==
  IF dependents = <<>> THEN q
  ELSE LET dependentId == Head(dependents)
           canStart    == checkDependenciesMet(g, dependentId)
           r == IF canStart
                  THEN InjectForEach(q, g[dependentId].assignees,
                         Context("dependency_completed", dependentId, id))
                  ELSE q
       IN TriggerDependents(r, g, Tail(dependents), id)

\* handleSubtaskCompleted(event)
handleSubtaskCompleted(c, id) ==
  IF c.dependencyGraph[id].known
    THEN LET g == [c.dependencyGraph EXCEPT ![id].status = "completed"] IN
         [c EXCEPT !.dependencyGraph = g,
                   !.agentQueues =
                      TriggerDependents(@, g, g[id].dependents, id)]
    ELSE c

\* handleEvent(event): eventHistory.push, then the handler of the type
PocReceives(c) == [c EXCEPT !.eventHistory = @ + 1]

PocTaskCreated ==
  /\ poc.eventHistory < MaxEvents
  /\ poc' = PocReceives(poc)
  /\ UNCHANGED notPoc

PocSubtaskCreated(payload) ==
  /\ poc.eventHistory < MaxEvents
  /\ poc' = handleSubtaskCreated(PocReceives(poc), payload)
  /\ UNCHANGED notPoc

PocSubtaskUpdated(id, progress) ==
  /\ poc.eventHistory < MaxEvents
  /\ poc' = handleSubtaskUpdated(PocReceives(poc), id, progress)
  /\ UNCHANGED notPoc

PocSubtaskCompleted(id) ==
  /\ poc.eventHistory < MaxEvents
  /\ poc' = handleSubtaskCompleted(PocReceives(poc), id)
  /\ UNCHANGED notPoc

NextPoc ==
  \/ PocTaskCreated
  \/ \E payload \in CreatedPayloads : PocSubtaskCreated(payload)
  \/ \E id \in SubtaskIds : PocSubtaskUpdated(id, "50")
  \/ \E id \in SubtaskIds : PocSubtaskCompleted(id)

SpecPoc == Init /\ [][NextPoc]_vars

\* ------------------------------------ the coordinator and its event router
\* the events the router receives: subtask.created with or without a
\* dependencies field, subtask.completed, subtask.updated and an event of
\* a type the router has no case for
Event(type, id, assignees, hasDeps, dependencies) ==
  [event_type |-> type, id |-> id, assignees |-> assignees,
   hasDeps |-> hasDeps, dependencies |-> dependencies]

CoordEvents ==
  {Event("subtask.created", id, as, TRUE, deps) :
     id \in CoordSubtaskIds, as \in Assignees, deps \in {<<>>, <<1>>}}
    \cup {Event("subtask.created", id, as, FALSE, <<>>) :
            id \in CoordSubtaskIds, as \in Assignees}
    \cup {Event("subtask.completed", id, <<>>, FALSE, <<>>) :
            id \in CoordSubtaskIds}
    \cup {Event("subtask.updated", 1, <<>>, FALSE, <<>>),
          Event("agent.status", NoSubtask, <<>>, FALSE, <<>>)}

\* EventRouter.enqueueForAgent(agentType, eventData)
enqueueForAgent(r, agentType, eventData) ==
  [r EXCEPT
     !.agentQueues[agentType] =
        Append(@, [eventData EXCEPT !.enqueued_at = r.enqueued + 1]),
     !.queueOrder = IF \E i \in DOMAIN @ : @[i] = agentType
                      THEN @ ELSE Append(@, agentType),
     !.enqueued = @ + 1]

\* `for (const agent of assignees) await this.enqueueForAgent(agent, ctx)`
RECURSIVE EnqueueForEach(_, _, _)
EnqueueForEach(r, assignees, eventData) ==
  IF assignees = <<>> THEN r
  ELSE EnqueueForEach(enqueueForAgent(r, Head(assignees), eventData),
                      Tail(assignees), eventData)

RouterContext(type, subtaskId, upstream) ==
  [type |-> type, subtask_id |-> subtaskId, upstream_task |-> upstream,
   enqueued_at |-> 0]

\* EventRouter.handleSubtaskCreated, the update of the dependents
RECURSIVE RouterPushDependents(_, _, _)
RouterPushDependents(g, deps, id) ==
  IF deps = <<>> THEN g
  ELSE LET d == Head(deps)
           h == IF g[d].known
                  THEN [g EXCEPT ![d].dependents = Append(@, id)]
                  ELSE g
       IN RouterPushDependents(h, Tail(deps), id)

\* EventRouter.handleSubtaskCreated(event), for a payload with a
\* dependencies field
RouterSubtaskCreated(r, e) ==
  LET g1 == [r.dependencyGraph EXCEPT ![e.id] =
               [known |-> TRUE, dependencies |-> e.dependencies,
                dependents |-> <<>>]]
      r1 == [r EXCEPT !.dependencyGraph =
               RouterPushDependents(g1, e.dependencies, e.id)]
  IN IF e.dependencies = <<>>
       THEN EnqueueForEach(r1, e.assignees,
                           RouterContext("task_ready", e.id, NoSubtask))
       ELSE r1

\* EventRouter.checkDependenciesMet(subtaskId): every dependency has a
\* subtask.completed event in eventHistory
RouterDependenciesMet(r, subtaskId) ==
  LET node == r.dependencyGraph[subtaskId] IN
  IF ~node.known THEN TRUE
  ELSE \A j \in DOMAIN node.dependencies :
         \E i \in DOMAIN r.eventHistory :
           /\ r.eventHistory[i].event_type = "subtask.completed"
           /\ r.eventHistory[i].id = node.dependencies[j]

\* EventRouter.getTaskAssignees(subtaskId): the assignees of the first
\* subtask.created event of that id
getTaskAssignees(r, subtaskId) ==
  LET found == {i \in DOMAIN r.eventHistory :
                  /\ r.eventHistory[i].event_type = "subtask.created"
                  /\ r.eventHistory[i].id = subtaskId}
  IN IF found = {} THEN <<>>
     ELSE r.eventHistory[CHOOSE i \in found : \A j \in found : i <= j].assignees

\* the loop of EventRouter.handleSubtaskCompleted over node.dependents
RECURSIVE RouterTriggerDependents(_, _, _)
RouterTriggerDependents(r, dependents, id) ==
  IF dependents = <<>> THEN r
  ELSE LET dependentId == Head(dependents)
           r1 == IF RouterDependenciesMet(r, dependentId)
                   THEN EnqueueForEach(r, getTaskAssignees(r, dependentId),
                          RouterContext("dependency_completed",
                                        dependentId, id))
                   ELSE r
       IN RouterTriggerDependents(r1, Tail(dependents), id)

\* EventRouter.handleSubtaskCompleted(event)
RouterSubtaskCompleted(r, e) ==
  LET node == r.dependencyGraph[e.id] IN
  IF ~node.known \/ node.dependents = <<>> THEN r
  ELSE RouterTriggerDependents(r, node.dependents, e.id)

\* The events whose handling ends in a TypeError, which the coordinator's
\* 'event' listener catches and logs: task.* and subtask.updated are routed
\* to methods the class does not define, and handleSubtaskCreated reads
\* dependencies.length before it allows for a missing field.
RouterThrows(e) ==
  \/ e.event_type \in {"task.created", "task.updated", "subtask.updated"}
  \/ e.event_type = "subtask.created" /\ ~e.hasDeps

\* EventRouter.handleEvent(event): eventHistory.push, saveEventHistory,
\* then the handler of the type
RouterHandleEvent(r, e) ==
  LET r1 == [r EXCEPT !.eventHistory = Append(@, e)] IN
  CASE RouterThrows(e) -> r1
    [] e.event_type = "subtask.created" -> RouterSubtaskCreated(r1, e)
    [] e.event_type = "subtask.completed" -> RouterSubtaskCompleted(r1, e)
    [] OTHER -> r1

\* the 'subtask.created' listener of the coordinator: a session is started
\* for each assignee of a subtask without dependencies
AutoStarts(e) ==
  IF e.event_type = "subtask.created" /\ (~e.hasDeps \/ e.dependencies = <<>>)
    THEN e.assignees ELSE <<>>

\* A WebSocket message: the client emits 'event', whose listener runs
\* handleEvent (the router's handleEvent, then checkPendingInjections if
\* that did not throw), and then the event's own type, whose listener
\* starts sessions.  The event is taken when the handling of the one
\* before it has finished its injections.
CoordHandleEvent(e) ==
  LET r == RouterHandleEvent(router, e) IN
  /\ ~crashed
  /\ Len(router.eventHistory) < MaxCoordEvents
  /\ router.visiting = <<>>
  /\ router' = [r EXCEPT
                  !.visiting = IF RouterThrows(e) THEN <<>> ELSE r.queueOrder,
                  !.starting = @ \o AutoStarts(e)]
  /\ UNCHANGED mgr
  /\ UNCHANGED notCoord

\* checkPendingInjections, one turn of its loop over agentQueues: if the
\* agent's queue is not empty and sessions has a session for the agent,
\* queue.shift() and injectContext(agentType, contextData), then the queue
\* file is rewritten.
CheckPendingInjection ==
  LET k     == Head(router.visiting)
      queue == router.agentQueues[k]
      pid   == SessionsGet(sessions, k)
      ctx   == Head(queue)
      d     == [caller |-> "coord", seq |-> ctx.enqueued_at,
                type |-> ctx.type]
      chunk == buildContextInjection(d) \o <<NL>>
  IN
  /\ ~crashed
  /\ router.visiting # <<>>
  /\ IF queue # <<>> /\ pid # NoPid
       THEN /\ router' = [router EXCEPT !.visiting = Tail(@),
                                        !.agentQueues[k] = Tail(@)]
            /\ calls' = Append(calls, [caller |-> "coord",
                                       seq |-> d.seq, type |-> d.type,
                                       key |-> k, pid |-> pid])
            /\ procs' = [procs EXCEPT ![pid] = StdinWrite(@, chunk)]
            /\ epipe' = IF Epipe(procs[pid]) THEN pid ELSE NoPid
            /\ lastOp' = [op |-> "inject", key |-> k, wasActive |-> TRUE,
                          result |-> InjectResult(pid),
                          results |-> NoResults]
            /\ UNCHANGED sessions
       ELSE /\ router' = [router EXCEPT !.visiting = Tail(@)]
            /\ UNCHANGED mgr
  /\ UNCHANGED notCoord

\* one turn of the loop of the 'subtask.created' listener:
\* `await this.sessionManager.startSession(agent, payload.id, payload)`
AutoStart(promptOk, spawnOk) ==
  /\ router.starting # <<>>
  /\ startSession(Head(router.starting), promptOk, spawnOk)
  /\ router' = [router EXCEPT !.starting = Tail(@)]
  /\ UNCHANGED notCoord

\* Every prompt file is there and the executable starts.
NextCoord ==
  \/ \E e \in CoordEvents : CoordHandleEvent(e)
  \/ CheckPendingInjection
  \/ AutoStart(TRUE, TRUE)
  \/ \E pid \in Pids : ProcExit(pid)
  \/ \E pid \in Pids : ExitEvent(pid)

SpecCoord == Init /\ [][NextCoord]_vars

\* The coordinator is a running process: an injection turn or a session
\* start that is due is taken, and an 'exit' event that has been emitted is
\* delivered.  Nothing makes the backend send a further event.
FairSpecCoord ==
  /\ SpecCoord
  /\ WF_vars(CheckPendingInjection)
  /\ WF_vars(AutoStart(TRUE, TRUE))
  /\ WF_vars(\E pid \in Pids : ExitEvent(pid))

\* ------------------------------------------ the injector library, its calls
\* Payload Model: progress(percentage, message).  The body is a sequence
\* of tokens: a marker, the decimal digits of the percentage, a percent
\* sign and the message.
MaxPercentage == 100

DigitChars == <<"0", "1", "2", "3", "4", "5", "6", "7", "8", "9">>

\* the decimal digits of a natural number, most significant first
RECURSIVE Digits(_)
Digits(n) ==
  IF n < 10 THEN <<DigitChars[n + 1]>>
  ELSE Digits(n \div 10) \o <<DigitChars[(n % 10) + 1]>>

Failure(error) == [NoResult EXCEPT !.error = error]

\* [mutant] a range check that lets 101 through
progressOffByOne(percentage, message) ==
  IF percentage < 0 \/ percentage > MaxPercentage + 1
    THEN Failure("InvalidPayload")
    ELSE [NoResult EXCEPT !.ok = TRUE,
            !.body = <<"progress">> \o Digits(percentage)
                       \o <<"%", message>>]

\* InjectionPayload::progress(percentage, message)
progress(percentage, message) ==
  IF percentage < 0 \/ percentage > MaxPercentage
    THEN Failure("InvalidPayload")
    ELSE [NoResult EXCEPT !.ok = TRUE,
            !.body = <<"progress">> \o Digits(percentage)
                       \o <<"%", message>>]

\* Session Detector.  A session log file is a sequence of lines; a line
\* is a well-formed record with its timestamp, or malformed.
Record(ts) == [ok |-> TRUE, ts |-> ts]
Malformed  == [ok |-> FALSE, ts |-> 0]
Lines      == {Record(ts) : ts \in 1..MaxStamp} \cup {Malformed}

IsRecord(line) == line.ok

\* [mutant] a reader that takes both timestamps from the first record
SessionOfFirstOnly(sessionId, file) ==
  LET records == SelectSeq(file, IsRecord) IN
  IF records = <<>> THEN <<>>
  ELSE <<[session_id |-> sessionId, created_at |-> records[1].ts,
          last_active_at |-> records[1].ts]>>

\* one file reduced to one Session: malformed lines are skipped, the first
\* record gives created_at, the last one last_active_at; a file without a
\* record gives no Session
SessionOf(sessionId, file) ==
  LET records == SelectSeq(file, IsRecord) IN
  IF records = <<>> THEN <<>>
  ELSE <<[session_id |-> sessionId, created_at |-> records[1].ts,
          last_active_at |-> records[Len(records)].ts]>>

\* the lines skipped with a parse warning
ParseWarnings(file) == Len(file) - Len(SelectSeq(file, IsRecord))

RECURSIVE ReadFiles(_, _)
ReadFiles(files, n) ==
  IF n = 0 THEN [NoResult EXCEPT !.ok = TRUE]
  ELSE LET r == ReadFiles(files, n - 1) IN
       [r EXCEPT !.sessions = @ \o SessionOf(n, files[n]),
                 !.warnings = @ + ParseWarnings(files[n])]

\* [mutant] a reader that gives up at a malformed line
get_project_sessions_strict(files) ==
  IF \E i \in DOMAIN files : ParseWarnings(files[i]) > 0
    THEN Failure("ParseError")
    ELSE ReadFiles(files, Len(files))

\* SessionDetector::get_project_sessions(project_id), on the session log
\* files of the project
get_project_sessions(files) == ReadFiles(files, Len(files))

\* the calls made of the library
Percentages == (0 - PercentSpan)..(MaxPercentage + PercentSpan)
Messages    == {"Almost done", "Feature complete"}

FilesUpTo(n) == UNION {[1..k -> Lines] : k \in 0..n}

Projects ==
  {<<f>> : f \in FilesUpTo(MaxLines)}
    \cup UNION {[1..k -> FilesUpTo(MaxLinesOfMany)] : k \in 2..MaxFiles}

LibInputs ==
  {LibCall("progress", p, m, <<>>) : p \in Percentages, m \in Messages}
    \cup {LibCall("get_project_sessions", 0, "-", files) : files \in Projects}

InitLib ==
  /\ InitCore
  /\ lib \in LibInputs

Progress ==
  /\ lib.kind = "progress"
  /\ ~lib.returned
  /\ lib' = [lib EXCEPT !.returned = TRUE,
                        !.result = progress(lib.p, lib.m)]
  /\ UNCHANGED notLib

GetProjectSessions ==
  /\ lib.kind = "get_project_sessions"
  /\ ~lib.returned
  /\ lib' = [lib EXCEPT !.returned = TRUE,
                        !.result = get_project_sessions(lib.files)]
  /\ UNCHANGED notLib

NextLib ==
  \/ Progress
  \/ GetProjectSessions

SpecLib == InitLib /\ [][NextLib]_vars

\* --------------------------------- shared_knowledge_manager.sh, sequential
\* kb is KNOWLEDGE_FILE: missing, empty (zero bytes) or the JSON document,
\* whose sections are the fields; clock is the date of the next run, cmd,
\* asked and out the last run and what it printed.
\* A text is a sequence of words; the word "\"" is a double quote.
KbAgents == {"coding-agent", "test-agent"}
KbTexts  == {<<"Found", "users", "table">>, <<"Found", "\"", "users", "\"">>}
KbPhases == {"design"}

HasQuote(text) == \E i \in DOMAIN text : text[i] = "\""

\* the arguments are pasted into the text of the jq program, each between
\* two double quotes: a quote in an argument ends the string literal early
\* and the program does not compile
JqCompiles(args) == \A i \in DOMAIN args : ~HasQuote(args[i])

\* KNOWLEDGE_FILE.tmp after a jq that printed nothing, moved over the file
Emptied(k) ==
  [k EXCEPT !.file = "empty", !.workflow_start_time = 0,
            !.current_phase = "-", !.discoveries = <<>>, !.warnings = <<>>,
            !.communication_log = <<>>]

\* jq "<program>" file > file.tmp; mv file.tmp file: the redirection
\* creates the empty tmp file, jq writes the updated document only if it
\* could read a document and compile the program, mv runs in any case
JqUpdate(k, args, updated) ==
  IF k.file = "json" /\ JqCompiles(args) THEN updated ELSE Emptied(k)

\* one run of the script: the date it reads, the command, nothing printed
Run(k, cmd) ==
  [k EXCEPT !.clock = @ + 1, !.cmd = cmd, !.asked = "-", !.out = <<>>]

init_knowledge(k) ==
  [Run(k, "init") EXCEPT
     !.file = "json", !.workflow_start_time = k.clock + 1,
     !.current_phase = "initialization", !.discoveries = <<>>,
     !.warnings = <<>>, !.communication_log = <<>>]

add_discovery(k, agent, discovery) ==
  LET r == Run(k, "add-discovery") IN
  JqUpdate(r, <<<<agent>>, discovery>>,
           [r EXCEPT !.discoveries =
              Append(@, [agent |-> agent, discovery |-> discovery,
                         timestamp |-> r.clock])])

add_warning(k, agent, warning, severity) ==
  LET r == Run(k, "add-warning") IN
  JqUpdate(r, <<<<agent>>, warning, <<severity>>>>,
           [r EXCEPT !.warnings =
              Append(@, [agent |-> agent, warning |-> warning,
                         severity |-> severity, timestamp |-> r.clock])])

add_communication(k, from_agent, to_agent, message) ==
  LET r == Run(k, "add-message") IN
  JqUpdate(r, <<<<from_agent>>, <<to_agent>>, message>>,
           [r EXCEPT !.communication_log =
              Append(@, [from |-> from_agent, to |-> to_agent,
                         message |-> message, timestamp |-> r.clock])])

update_phase(k, phase) ==
  LET r == Run(k, "update-phase") IN
  JqUpdate(r, <<<<phase>>>>, [r EXCEPT !.current_phase = phase])

\* [mutant] a filter without the broadcast recipient
get_messages_only_direct(k, agent) ==
  LET r == Run(k, "get-messages")
      Selected(entry) == entry.to = agent
  IN [r EXCEPT !.asked = agent,
               !.out = IF k.file = "json" /\ JqCompiles(<<<<agent>>>>)
                         THEN SelectSeq(k.communication_log, Selected)
                         ELSE <<>>]

\* jq prints the selected entries in the order of the array; it prints
\* nothing from a file it cannot read or that is empty
get_messages_for_agent(k, agent) ==
  LET r == Run(k, "get-messages")
      Selected(entry) == entry.to = agent \/ entry.to = "all"
  IN [r EXCEPT !.asked = agent,
               !.out = IF k.file = "json" /\ JqCompiles(<<<<agent>>>>)
                         THEN SelectSeq(k.communication_log, Selected)
                         ELSE <<>>]

KbInit ==
  /\ kb.clock < MaxKbCalls
  /\ kb' = init_knowledge(kb)
  /\ UNCHANGED notKb

AddDiscovery(agent, discovery) ==
  /\ kb.clock < MaxKbCalls
  /\ kb' = add_discovery(kb, agent, discovery)
  /\ UNCHANGED notKb

AddWarning(agent, warning, severity) ==
  /\ kb.clock < MaxKbCalls
  /\ kb' = add_warning(kb, agent, warning, severity)
  /\ UNCHANGED notKb

AddMessage(from_agent, to_agent, message) ==
  /\ kb.clock < MaxKbCalls
  /\ kb' = add_communication(kb, from_agent, to_agent, message)
  /\ UNCHANGED notKb

UpdatePhase(phase) ==
  /\ kb.clock < MaxKbCalls
  /\ kb' = update_phase(kb, phase)
  /\ UNCHANGED notKb

GetMessages(agent) ==
  /\ kb.clock < MaxKbCalls
  /\ kb' = get_messages_for_agent(kb, agent)
  /\ UNCHANGED notKb

NextKb ==
  \/ KbInit
  \/ \E agent \in KbAgents, discovery \in KbTexts :
       AddDiscovery(agent, discovery)
  \/ \E warning \in KbTexts : AddWarning("test-agent", warning, "high")
  \/ \E to_agent \in KbAgents \cup {"all"}, message \in KbTexts :
       AddMessage("coding-agent", to_agent, message)
  \/ \E phase \in KbPhases : UpdatePhase(phase)
  \/ \E agent \in KbAgents : GetMessages(agent)

SpecKb == Init /\ [][NextKb]_vars

\* --------------------------------- shared_knowledge_manager.sh, concurrent
\* Each agent runs its add-* commands one after the other; the commands of
\* different agents overlap.  A command is two steps: the line
\* `jq "<program>" file > file.tmp`, which reads the knowledge file and
\* leaves the updated document in KNOWLEDGE_FILE.tmp, and the line
\* `mv file.tmp file`.  Neither takes a lock, and every command uses the
\* same tmp path.
JobCmds == {"add-discovery", "add-message"}

\* the texts without a double quote
PlainTexts == {text \in KbTexts : ~HasQuote(text)}

\* the document the jq of the command prints, read from the file k
JobDoc(k, w, cmd, text) ==
  IF cmd = "add-discovery" THEN add_discovery(k, w, text)
  ELSE add_communication(k, w, "all", text)

InFlight == Cardinality({w \in Writers : jobs.of[w].pc # "idle"})

\* `jq ... "$KNOWLEDGE_FILE" > "$KNOWLEDGE_FILE.tmp"` of agent w's command
JobJq(w, cmd, text) ==
  /\ kb.file = "json"
  /\ jobs.of[w].pc = "idle"
  /\ jobs.returned + InFlight < MaxJobs
  /\ jobs' = [jobs EXCEPT
                !.tmp = [exists |-> TRUE, doc |-> JobDoc(kb, w, cmd, text)],
                !.of[w] = [pc |-> "mv", cmd |-> cmd, text |-> text]]
  /\ UNCHANGED kb
  /\ UNCHANGED notJobs

\* `mv "$KNOWLEDGE_FILE.tmp" "$KNOWLEDGE_FILE"` of agent w's command: the
\* tmp file, whoever wrote it last, becomes the knowledge file; without a
\* tmp file mv fails and the command ends all the same
JobMv(w) ==
  /\ jobs.of[w].pc = "mv"
  /\ kb' = IF jobs.tmp.exists THEN jobs.tmp.doc ELSE kb
  /\ jobs' = [jobs EXCEPT !.tmp = NoTmp, !.of[w] = JobIdle,
                          !.returned = @ + 1]
  /\ UNCHANGED notJobs

\* init, run once before the agents start
JobsKbInit ==
  /\ kb.file = "missing"
  /\ kb' = init_knowledge(kb)
  /\ UNCHANGED jobs
  /\ UNCHANGED notJobs

NextJobs ==
  \/ JobsKbInit
  \/ \E w \in Writers, cmd \in JobCmds, text \in PlainTexts :
       JobJq(w, cmd, text)
  \/ \E w \in Writers : JobMv(w)

SpecJobs == Init /\ [][NextJobs]_vars

\* ------------------------------------------- the WebSocket client, its steps
\* this.maxReconnectAttempts
maxReconnectAttempts == 10

\* connect(): this.ws = new WebSocket(this.wsUrl), and the four listeners
connect(c) == [c EXCEPT !.ws = "connecting", !.connects = @ + 1]

\* reconnect(): gives up at maxReconnectAttempts, otherwise counts the
\* attempt and sets the timer that calls connect() (after a delay that
\* grows with the attempts, which the model leaves out)
reconnect(c) ==
  IF c.reconnectAttempts >= maxReconnectAttempts THEN c
  ELSE [c EXCEPT !.reconnectAttempts = @ + 1, !.timers = @ + 1]

ClientRunning == ~client.uncaught /\ ~client.exited

\* coordinator.start(): this.wsClient.connect().  The coordinator is
\* started once, and not after it has been stopped.
ClientConnect ==
  /\ ClientRunning
  /\ client.connects = 0
  /\ ~client.closeCalled
  /\ client' = connect(client)
  /\ UNCHANGED notClient

\* ws.on('open'): reconnectAttempts = 0, subscribe, emit 'connected'
WsOpen ==
  /\ ClientRunning
  /\ client.ws = "connecting"
  /\ client' = [client EXCEPT !.ws = "open", !.reconnectAttempts = 0]
  /\ UNCHANGED notClient

\* ws.on('error'): this.emit('error', err).  Neither the client nor the
\* coordinator registers an 'error' listener on the client, so the emit
\* throws and the exception is uncaught.
WsError ==
  /\ ClientRunning
  /\ client.ws \in {"connecting", "open"}
  /\ client' = [client EXCEPT !.uncaught = TRUE]
  /\ UNCHANGED notClient

\* ws.on('close'), after the server closed the connection or after
\* ws.close(): emit 'disconnected', then this.reconnect()
WsClose ==
  /\ ClientRunning
  /\ client.ws \in {"open", "closing"}
  /\ client' = reconnect([client EXCEPT !.ws = "closed"])
  /\ UNCHANGED notClient

\* the timer of reconnect() fires: this.connect()
ReconnectTimer ==
  /\ ClientRunning
  /\ client.timers > 0
  /\ client.connects < MaxConnects
  /\ client' = connect([client EXCEPT !.timers = @ - 1])
  /\ UNCHANGED notClient

\* close(), as coordinator.stop() calls it: `if (this.ws) this.ws.close()`;
\* the socket starts closing and its 'close' event comes later.  A pending
\* timer is not cleared.
ClientClose ==
  /\ ClientRunning
  /\ client' = [client EXCEPT
                  !.ws = IF @ \in {"connecting", "open"} THEN "closing" ELSE @,
                  !.closeCalled = TRUE]
  /\ UNCHANGED notClient

\* process.exit(0), which the SIGINT / SIGTERM handlers of the command line
\* entry point call after coordinator.stop() has returned
ClientExit ==
  /\ ClientRunning
  /\ client.closeCalled
  /\ client' = [client EXCEPT !.exited = TRUE]
  /\ UNCHANGED notClient

NextWs ==
  \/ ClientConnect
  \/ WsOpen
  \/ WsError
  \/ WsClose
  \/ ReconnectTimer
  \/ ClientClose
  \/ ClientExit

SpecWs == Init /\ [][NextWs]_vars

\* ------------------------------------------------------------------ claims
\* the text written for one logged call
ChunkOf(call) ==
  buildContextInjection([caller |-> call.caller, seq |-> call.seq,
                         type |-> call.type]) \o <<NL>>

\* everything a session's stdin stream has accepted and not lost
Accepted(pid) == procs[pid].stdin \o procs[pid].wbuf

\* the manager's view of a worker, in the vocabulary of the state machine:
\* registered sessions are Running (or Blocked), a session removed by
\* stopSession / stopAllSessions is Stopped, one removed by its exit
\* handler is Exited (Completed or Failed by exit code), and a worker whose
\* entry was taken over or deleted by another worker's handler is Detached.
Status(pid) ==
  IF procs[pid].signalled THEN "Stopped"
  ELSE IF procs[pid].exitHandled THEN "Exited"
  ELSE IF SessionsGet(sessions, procs[pid].agentType) = pid THEN "Running"
  ELSE "Detached"

\* C1: a startSession for an identity that already has an active session
\* spawns no second worker (it is rejected), so no identity ever has two
\* workers that were neither stopped nor seen to exit.
C1_StartRejectedWhenActive ==
  /\ (lastOp.op = "start" /\ lastOp.wasActive) => lastOp.result # "session"
  /\ \A p, q \in DOMAIN procs :
       ( /\ procs[p].agentType = procs[q].agentType
         /\ ~procs[p].signalled /\ ~procs[p].exitHandled
         /\ ~procs[q].signalled /\ ~procs[q].exitHandled ) => p = q

\* C2: an inject for an identity without a registry entry returns the
\* error SessionNotFound.
C2_InjectMissingIsSessionNotFound ==
  (lastOp.op = "inject" /\ ~lastOp.wasActive) => lastOp.result = "SessionNotFound"

\* C3: what a worker has received on stdin is, at every moment, a
\* concatenation of whole newline-terminated payload texts followed by at
\* most the beginning of one more: no payload text is cut by another one.
RECURSIVE WholePayloads(_)
WholePayloads(s) ==
  \/ s = <<>>
  \/ \E i \in DOMAIN calls :
       LET ch == ChunkOf(calls[i]) IN
       IF Len(s) <= Len(ch)
         THEN s = SubSeq(ch, 1, Len(s))
         ELSE /\ SubSeq(s, 1, Len(ch)) = ch
              /\ WholePayloads(SubSeq(s, Len(ch) + 1, Len(s)))

C3_PayloadsNotInterleaved ==
  \A pid \in DOMAIN procs : WholePayloads(procs[pid].stdin)

\* two callers' payloads for one session are in flight on its stream at
\* the same time, the first one partly delivered
C3_Witness ==
  \E pid \in DOMAIN procs :
    \E i, j \in DOMAIN calls :
      /\ i < j /\ calls[i].caller # calls[j].caller
      /\ calls[i].pid = pid /\ calls[j].pid = pid
      /\ Accepted(pid) = ChunkOf(calls[i]) \o ChunkOf(calls[j])
      /\ Len(procs[pid].stdin) > 0
      /\ Len(procs[pid].stdin) < Len(ChunkOf(calls[i]))

RECURSIVE InjectedInto(_, _)
InjectedInto(pid, n) ==
  IF n = 0 THEN <<>>
  ELSE InjectedInto(pid, n - 1) \o
       (IF calls[n].key = procs[pid].agentType /\ calls[n].pid = pid
          THEN ChunkOf(calls[n]) ELSE <<>>)

C5_SessionsGetOwnPayloads ==
  \A pid \in DOMAIN procs :
    /\ procs[pid].alive => Accepted(pid) = InjectedInto(pid, Len(calls))
    /\ \A i \in DOMAIN Accepted(pid) :
         LET u == Accepted(pid)[i] IN
         u # NL => \E j \in DOMAIN calls :
                     /\ calls[j].caller = u.c /\ calls[j].seq = u.n
                     /\ calls[j].key = procs[pid].agentType

\* two live sessions of different identities, each holding a payload
C5_Witness ==
  \E p, q \in DOMAIN procs :
    /\ procs[p].agentType = "a" /\ procs[q].agentType = "b"
    /\ procs[p].alive /\ procs[q].alive
    /\ SessionsGet(sessions, "a") = p /\ SessionsGet(sessions, "b") = q
    /\ Accepted(p) # <<>> /\ Accepted(q) # <<>>

C7_NoWriteToClosedPipe ==
  epipe # NoPid => ~procs[epipe].signalled

\* C8: a stopSession of an active session leaves no registry entry for it,
\* and an identity without an entry gets one only by a startSession of
\* that identity that returns a session.
C8_InactiveUntilStart ==
  [][ /\ lastOp'.op = "stop" => SessionsGet(sessions', lastOp'.key) = NoPid
      /\ \A k \in AgentTypes :
           (SessionsGet(sessions, k) = NoPid /\ SessionsGet(sessions', k) # NoPid)
           => (lastOp'.op = "start" /\ lastOp'.key = k /\ lastOp'.result = "session")
    ]_vars

\* a stopSession of an active session has completed
C8_Witness ==
  lastOp.op = "stop" /\ lastOp.wasActive /\ ~IsSessionActive(lastOp.key)

\* C9: a stopSession of an identity without an active session returns
\* without error and changes nothing.
C9_StopIdempotent ==
  [][(lastOp'.op = "stop" /\ ~lastOp'.wasActive)
       => /\ lastOp'.result = "returned"
          /\ sessions' = sessions /\ procs' = procs
          /\ epipe' = epipe /\ calls' = calls]_vars

\* the second of two stops of one session
C9_Witness ==
  /\ lastOp.op = "stop" /\ ~lastOp.wasActive
  /\ \E pid \in DOMAIN procs :
       procs[pid].agentType = lastOp.key /\ Status(pid) = "Stopped"

\* C10: a broadcast returns one result per session active at the call and
\* writes the payload for every one of them whose worker has not exited,
\* whatever the results for the other targets are.
C10_BroadcastReachesEverySession ==
  [][lastOp'.op = "broadcast" =>
       /\ DOMAIN lastOp'.results = {k \in AgentTypes : SessionsGet(sessions, k) # NoPid}
       /\ \A k \in DOMAIN lastOp'.results :
            LET pid == SessionsGet(sessions, k) IN
            /\ lastOp'.results[k] = (IF procs[pid].alive THEN "Ok" ELSE "SessionNotActive")
            /\ procs[pid].alive =>
                 Len(procs'[pid].stdin) + Len(procs'[pid].wbuf)
                   > Len(procs[pid].stdin) + Len(procs[pid].wbuf)]_vars

\* a broadcast to two sessions of which one failed and the other did not
C10_Witness ==
  /\ lastOp.op = "broadcast"
  /\ \E k1, k2 \in DOMAIN lastOp.results :
       lastOp.results[k1] = "Ok" /\ lastOp.results[k2] = "SessionNotActive"

\* C11: an inject into a registered session whose worker is dead ends, for
\* its caller, with SessionNotActive or Timeout.
C11_InjectToDeadWorkerReported ==
  ( /\ lastOp.op = "inject" /\ lastOp.wasActive
    /\ ~procs[calls[Len(calls)].pid].alive )
  => lastOp.result \in {"SessionNotActive", "Timeout"}

\* C12: the status of a worker changes only along the state machine: a
\* Running worker stays Running or becomes Blocked, Completed, Failed
\* (both: its exit was seen) or Stopped, and nothing leaves Stopped.
C12_StatusFollowsStateMachine ==
  [][\A pid \in DOMAIN procs :
       /\ Status(pid) = "Running"
            => Status(pid)' \in {"Running", "Blocked", "Completed", "Failed",
                                 "Exited", "Stopped"}
       /\ Status(pid) = "Stopped" => Status(pid)' = "Stopped"]_vars

\* C13: a stdout chunk that makes checkCompletionSignals report a worker
\* blocked leaves the worker unsignalled, alive and registered as before,
\* and an inject into a session whose live worker is reported blocked
\* returns normally with its text taken by the worker's stdin stream.
C13_BlockedWorkerKeptAndInjectable ==
  [][ /\ \A pid \in DOMAIN procs :
           ( /\ ~checkCompletionSignals(procs[pid].outputBuffer).blocked
             /\ checkCompletionSignals(procs'[pid].outputBuffer).blocked )
           => /\ procs'[pid].signalled = procs[pid].signalled
              /\ procs'[pid].alive = procs[pid].alive
              /\ sessions' = sessions
      /\ (lastOp'.op = "inject" /\ lastOp'.wasActive) =>
           LET call == calls'[Len(calls')]
               q    == call.pid
           IN ( /\ checkCompletionSignals(procs[q].outputBuffer).blocked
                /\ procs[q].alive )
              => /\ lastOp'.result = "returned"
                 /\ procs'[q].stdin \o procs'[q].wbuf
                      = (procs[q].stdin \o procs[q].wbuf) \o ChunkOf(call)
    ]_vars

\* an inject into a registered, live worker that was reported blocked
C13_Witness ==
  /\ lastOp.op = "inject" /\ lastOp.wasActive
  /\ LET q == calls[Len(calls)].pid IN
       /\ checkCompletionSignals(procs[q].outputBuffer).blocked
       /\ procs[q].alive /\ ~procs[q].signalled
       /\ SessionsGet(sessions, procs[q].agentType) = q
       /\ Accepted(q) = ChunkOf(calls[Len(calls)])

\* C14: a read failure on the stdout or stderr of one session stays with
\* that session: the manager goes on serving the other sessions.
C14_ReadFailureKeptToItsSession ==
  \A pid \in DOMAIN procs :
    procs[pid].uncaught \in {"stdout", "stderr"} => ~crashed

\* C18: the main loop has ended with "workflow complete" only if every
\* task of the branch is done and the three condition flags exist.
C18_CompleteOnlyWhenAllMet ==
  orch.pc = "done" =>
    /\ \A t \in TaskIds : orch.tasks[t] = "done"
    /\ CondFlags \subseteq orch.flags

\* C19: an iteration of the main loop that starts with
\* workflow_complete.flag in the work directory goes on to no task fetch.
C19_StopFlagEndsLoop ==
  [][(orch.pc = "top" /\ "workflow_complete" \in orch.flags)
       => orch'.pc # "fetch"]_vars

\* C20: a launch of the orchestrator leaves the condition flags and the
\* task result files of the work directory as it found them, so they are
\* there at the first completion check.
C20_RestartKeepsWorkspace ==
  [][(orch.pc \in {"off", "done"} /\ orch'.pc = "top") =>
       /\ orch.flags \cap CondFlags \subseteq orch'.flags
       /\ orch.taskResults \subseteq orch'.taskResults]_vars

\* C15: a startSession whose worker executable cannot be launched does not
\* return a session and leaves no registry entry for its identity.
C15_SpawnFailureReported ==
  /\ (lastOp.op = "start" /\ lastOp.result = "session")
       => procs[Len(procs)].spawned
  /\ \A k \in AgentTypes :
       IsSessionActive(k) => procs[SessionsGet(sessions, k)].spawned

\* what a worker has been given as input, in the order it was given: the
\* arguments it was started with, then what it has read from its stdin
Received(pid) == procs[pid].argv \o procs[pid].stdin

\* C16: the first input of every worker is the initial query of its
\* startSession call; no injected payload precedes it.
C16_InitialQueryFirst ==
  \A pid \in DOMAIN procs :
    Received(pid) # <<>>
      => Received(pid)[1] = buildInitialQuery(procs[pid].agentType)

\* a worker that has the initial query and text of an injected payload
C16_Witness ==
  \E pid \in DOMAIN procs :
    /\ procs[pid].stdin # <<>>
    /\ Len(Received(pid)) > Len(procs[pid].stdin)
    /\ \E i \in DOMAIN calls : calls[i].pid = pid

\* C17: an inject into a session with a live worker returns at once and
\* its text is taken by that session's own stream in the same step, as far
\* into the pipe as that pipe has room, whatever is pending on the streams
\* of the other sessions.
C17_InjectNotDelayedByOtherSession ==
  [][(lastOp'.op = "inject" /\ lastOp'.wasActive) =>
       LET call == calls'[Len(calls')]
           q    == call.pid
           ch   == ChunkOf(call)
       IN procs[q].alive =>
            /\ lastOp'.result = "returned"
            /\ procs'[q].stdin \o procs'[q].wbuf
                 = (procs[q].stdin \o procs[q].wbuf) \o ch
            /\ procs[q].wbuf = <<>> =>
                 Len(procs'[q].stdin)
                   = Len(procs[q].stdin) + Min(procs[q].room, Len(ch))
            /\ \A p \in DOMAIN procs : p # q => procs'[p] = procs[p]]_vars

\* the inject into one session is still queued on its stream while a later
\* inject into another session has been read whole by that one's worker
C17_Witness ==
  \E i, j \in DOMAIN calls :
    LET p == calls[i].pid
        q == calls[j].pid
    IN /\ i < j /\ p # NoPid /\ q # NoPid /\ p # q
       /\ procs[p].alive /\ procs[p].wbuf # <<>>
       /\ procs[p].stdin \o procs[p].wbuf = ChunkOf(calls[i])
       /\ procs[q].wbuf = <<>>
       /\ procs[q].stdin = ChunkOf(calls[j])

\* C22: a blocked result raises human_intervention_needed.flag; while the
\* flag exists the script is in its wait loop (or has been interrupted):
\* it fetches no task, calls no agent and reports no completion; and once
\* the script waits with the flag gone, it is back at the head of the main
\* loop, unless it is interrupted first.
C22_WaitsWhileFlagExists ==
  /\ [][orch.pc = "agent" /\ orch'.pc = "wait_human"
          => "human_intervention_needed" \in orch'.flags]_vars
  /\ []("human_intervention_needed" \in orch.flags
          => orch.pc \in {"wait_human", "off"})
  /\ [][orch.pc = "wait_human" /\ orch'.pc # "wait_human"
          => /\ orch'.pc \in {"top", "off"}
             /\ orch'.pc = "top"
                  => "human_intervention_needed" \notin orch.flags]_vars
  /\ (orch.pc = "wait_human" /\ "human_intervention_needed" \notin orch.flags)
       ~> (orch.pc \in {"top", "off"})

\* the script waits and the person has just removed the flag
C22_Witness ==
  /\ orch.pc = "wait_human"
  /\ "human_intervention_needed" \notin orch.flags
  /\ orch.tasks[orch.current] = "blocked"

\* C21: two orchestrators started for different branches work in separate
\* workspaces: no step of the second one creates, overwrites or deletes a
\* flag, task result or results file in the workspace of the first one.
C21_WorkspacesSeparate ==
  [][peer' # peer => Workspace(orch)' = Workspace(orch)]_vars

\* every dependency listed for subtask s in graph g is known and completed
DepsCompleted(g, s) ==
  \A j \in DOMAIN g[s].dependencies :
    LET depNode == g[g[s].dependencies[j]] IN
    depNode.known /\ depNode.status = "completed"

C24_DependentStartsInEveryOrder ==
  \A s \in SubtaskIds :
    LET node == poc.dependencyGraph[s] IN
    (node.known /\ node.dependencies # <<>>
       /\ DepsCompleted(poc.dependencyGraph, s)) =>
      \A i \in DOMAIN node.assignees :
        \E k \in DOMAIN poc.agentQueues[node.assignees[i]] :
          LET ctx == poc.agentQueues[node.assignees[i]][k] IN
          ctx.type = "dependency_completed" /\ ctx.subtask_id = s

\* the context with stamp n is in the queue of agent a
CoordQueued(a, n) ==
  \E i \in DOMAIN router.agentQueues[a] :
    router.agentQueues[a][i].enqueued_at = n

\* the text of the context with stamp n has been written to the stdin
\* stream of a session of agent a
CoordInjected(a, n) ==
  \E pid \in DOMAIN procs :
    /\ procs[pid].agentType = a
    /\ \E j \in DOMAIN Accepted(pid) :
         Accepted(pid)[j].c = "coord" /\ Accepted(pid)[j].n = n

\* C25: a context that waits in the queue of an agent whose session has
\* started is eventually injected into that agent's session (or the
\* session has ended before).
C25_QueuedContextReachesSession ==
  \A a \in AgentTypes : \A n \in 1..(2 * MaxCoordEvents) :
    (CoordQueued(a, n) /\ IsSessionActive(a))
      ~> (CoordInjected(a, n) \/ ~IsSessionActive(a))

\* the number written in the body: the value of its digit tokens
IsDigit(token) == \E i \in DOMAIN DigitChars : DigitChars[i] = token

DigitValue(token) == (CHOOSE i \in DOMAIN DigitChars : DigitChars[i] = token) - 1

RECURSIVE ValueOf(_)
ValueOf(digits) ==
  IF digits = <<>> THEN 0
  ELSE 10 * ValueOf(SubSeq(digits, 1, Len(digits) - 1))
         + DigitValue(digits[Len(digits)])

C27_FirstAndLastRecord ==
  (lib.kind = "get_project_sessions" /\ lib.returned) =>
    \A i \in DOMAIN lib.files :
      LET file == lib.files[i] IN
      (Len(file) >= 1 /\ \A j \in DOMAIN file : file[j].ok) =>
        /\ Cardinality({k \in DOMAIN lib.result.sessions :
                          lib.result.sessions[k].session_id = i}) = 1
        /\ \A k \in DOMAIN lib.result.sessions :
             lib.result.sessions[k].session_id = i =>
               /\ lib.result.sessions[k].created_at = file[1].ts
               /\ lib.result.sessions[k].last_active_at = file[Len(file)].ts

\* a file of three records with three different timestamps has been read
C27_Witness ==
  /\ lib.kind = "get_project_sessions" /\ lib.returned
  /\ Len(lib.files) = 1
  /\ Len(lib.files[1]) = 3
  /\ \A j \in 1..3 : lib.files[1][j].ok
  /\ lib.files[1][1].ts # lib.files[1][3].ts
  /\ Len(lib.result.sessions) = 1

\* C28: get_project_sessions does not fail on corrupt content: malformed
\* lines are skipped, and every file that holds a well-formed record gives
\* its Session, computed from its well-formed records, in the order of the
\* files; a file without any well-formed record gives none.
C28_CorruptContentSkipped ==
  (lib.kind = "get_project_sessions" /\ lib.returned) =>
    LET good == {i \in DOMAIN lib.files :
                   \E j \in DOMAIN lib.files[i] : lib.files[i][j].ok}
        out  == lib.result.sessions
    IN /\ lib.result.ok
       /\ Len(out) = Cardinality(good)
       /\ \A k \in DOMAIN out : out[k].session_id \in good
       /\ \A k, l \in DOMAIN out :
            k < l => out[k].session_id < out[l].session_id
       /\ \A k \in DOMAIN out :
            LET file == lib.files[out[k].session_id]
                oks  == {j \in DOMAIN file : file[j].ok}
            IN /\ \E j \in oks : /\ \A h \in oks : j <= h
                                 /\ out[k].created_at = file[j].ts
               /\ \E j \in oks : /\ \A h \in oks : h <= j
                                 /\ out[k].last_active_at = file[j].ts

\* a project of one corrupt file and two valid ones has given the two
\* Sessions of the valid ones
C28_Witness ==
  /\ lib.kind = "get_project_sessions" /\ lib.returned
  /\ Len(lib.files) = 3
  /\ lib.files[2] = <<Malformed>>
  /\ \A i \in {1, 3} : /\ lib.files[i] # <<>>
                       /\ \A j \in DOMAIN lib.files[i] : lib.files[i][j].ok
  /\ lib.result.ok
  /\ Len(lib.result.sessions) = 2
  /\ lib.result.sessions[1].session_id = 1
  /\ lib.result.sessions[2].session_id = 3

\* C29: get-messages for agent X prints exactly the entries of
\* communication_log whose recipient is X or "all", each once and in the
\* order of the log: every broadcast entry is printed, no entry addressed to
\* another agent is.
C29_MessagesForAgentOrAll ==
  kb.cmd = "get-messages" =>
    LET log == kb.communication_log
        out == kb.out
    IN /\ \A i \in DOMAIN log :
            (log[i].to = kb.asked \/ log[i].to = "all")
              <=> (\E j \in DOMAIN out : out[j] = log[i])
       /\ \A j \in DOMAIN out : \E i \in DOMAIN log : log[i] = out[j]
       /\ \A j, h \in DOMAIN out :
            j < h => out[j].timestamp < out[h].timestamp

\* test-agent has asked for its messages with, in the log, a message to
\* all, one to itself and one to coding-agent
C29_Witness ==
  /\ kb.cmd = "get-messages"
  /\ kb.asked = "test-agent"
  /\ Len(kb.communication_log) = 3
  /\ \E i \in 1..3 : kb.communication_log[i].to = "coding-agent"
  /\ Len(kb.out) = 2
  /\ kb.out[1].to = "all"
  /\ kb.out[2].to = "test-agent"

\* C30: an add-discovery run on the knowledge file that init made appends
\* exactly one entry to discoveries, keeps the earlier entries in their
\* order and leaves every other section as it was.
C30_AddDiscoveryAppendsOne ==
  [][(kb.file = "json" /\ kb'.clock = kb.clock + 1
        /\ kb'.cmd = "add-discovery") =>
       /\ kb'.file = "json"
       /\ Len(kb'.discoveries) = Len(kb.discoveries) + 1
       /\ SubSeq(kb'.discoveries, 1, Len(kb.discoveries)) = kb.discoveries
       /\ kb'.workflow_start_time = kb.workflow_start_time
       /\ kb'.current_phase = kb.current_phase
       /\ kb'.warnings = kb.warnings
       /\ kb'.communication_log = kb.communication_log]_vars

\* the contexts a step has added at the end of the queue of agent a
RouterAdded(a) ==
  SubSeq(router'.agentQueues[a], Len(router.agentQueues[a]) + 1,
         Len(router'.agentQueues[a]))

\* C31: the handling of a subtask.created event whose dependency list is
\* empty or missing adds exactly one task_ready context for the subtask to
\* the queue of each assignee and nothing to the other queues; the handling
\* of one with a non-empty dependency list adds no context to any queue.
C31_CreatedEnqueuesTaskReady ==
  [][Len(router'.eventHistory) = Len(router.eventHistory) + 1 =>
       LET e == router'.eventHistory[Len(router'.eventHistory)] IN
       e.event_type = "subtask.created" =>
         \A a \in AgentTypes :
           IF (~e.hasDeps \/ e.dependencies = <<>>)
                /\ \E i \in DOMAIN e.assignees : e.assignees[i] = a
             THEN /\ Len(RouterAdded(a)) = 1
                  /\ RouterAdded(a)[1].type = "task_ready"
                  /\ RouterAdded(a)[1].subtask_id = e.id
             ELSE router'.agentQueues[a] = router.agentQueues[a]]_vars

\* C32: the handling of the exit event of a worker leaves every registry
\* entry that holds another worker as it is: a session started again for
\* the same key before the old worker's exit is handled stays registered.
C32_ExitRemovesOnlyOwnEntry ==
  [][\A pid \in DOMAIN procs :
       (~procs[pid].exitHandled /\ procs'[pid].exitHandled) =>
         \A k \in AgentTypes :
           SessionsGet(sessions, k) # pid =>
             SessionsGet(sessions', k) = SessionsGet(sessions, k)]_vars

\* C33: once close() has been called the client opens no new socket, and
\* the 'close' event of a socket that close() closed sets no reconnect
\* timer.
C33_NoReconnectAfterClose ==
  [][/\ client.closeCalled => client'.connects = client.connects
     /\ (client.ws = "closing" /\ client'.ws = "closed") =>
          client'.timers = client.timers]_vars

\* C34: no update of the knowledge file is lost: when no add-* command is
\* running, the file holds one entry for each add-* command that has run
\* since init, also when the commands of two agents ran at the same time.
C34_NoLostUpdate ==
  (kb.file # "missing" /\ \A w \in Writers : jobs.of[w].pc = "idle") =>
    Len(kb.discoveries) + Len(kb.communication_log) = jobs.returned

\* C35: over any sequence of events, repeated ones included, the queue of
\* an agent holds at most one dependency_completed context for a given
\* dependent subtask.
C35_DependentTriggeredOnce ==
  \A a \in AgentTypes : \A s \in SubtaskIds :
    Cardinality({i \in DOMAIN poc.agentQueues[a] :
                   /\ poc.agentQueues[a][i].type = "dependency_completed"
                   /\ poc.agentQueues[a][i].subtask_id = s}) <= 1

\* C36: in the dependency graph a subtask recorded as completed stays
\* completed under every later event, and the dependents recorded for a
\* subtask stay recorded, in their order.
C36_StatusMonotonic ==
  [][\A s \in SubtaskIds :
       LET old == poc.dependencyGraph[s]
           new == poc'.dependencyGraph[s]
       IN /\ old.status = "completed" => new.status = "completed"
          /\ Len(new.dependents) >= Len(old.dependents)
          /\ SubSeq(new.dependents, 1, Len(old.dependents)) = old.dependents]_vars

====
